---- MODULE Spec2Model ----
(***************************************************************************)
(* Guided Component Architect: the agentic generate / validate / retry     *)
(* loop (main.py), the provider fallback walk (generator.py) and the       *)
(* validator (validator.py).                                               *)
(*                                                                         *)
(* Text is modelled as a sequence of one-character strings, so counting,   *)
(* lower-casing and substring search are computed as the code computes     *)
(* them.  A raw provider response is modelled by its layout (prose before  *)
(* the payload, the kind of markdown fence around it) and by the JSON      *)
(* value its payload denotes, or Garbage when the payload is not JSON.     *)
(***************************************************************************)
EXTENDS Integers, Sequences, FiniteSets, TLC

(* ------------------------------------------------------------------ *)
(* Bounds of the model                                                 *)
(* ------------------------------------------------------------------ *)

\* largest retry ceiling a run is started with
MaxRetriesBound == 3
\* longest conversation history handed to a run
MaxHistory == 1
\* the longest history of a run that stops after its first pull
MaxPromptHistory == 4

(* ------------------------------------------------------------------ *)
(* Text                                                                *)
(* ------------------------------------------------------------------ *)

Range(s) == { s[i] : i \in 1..Len(s) }

\* str.count(ch) for a one-character ch (also list.count(ch))
RECURSIVE Count(_, _)
Count(s, ch) ==
    IF s = <<>> THEN 0
    ELSE (IF Head(s) = ch THEN 1 ELSE 0) + Count(Tail(s), ch)

LowerChar(c) ==
    CASE c = "A" -> "a"
      [] c = "F" -> "f"
      [] OTHER   -> c

\* str.lower()
Lower(s) == [ i \in 1..Len(s) |-> LowerChar(s[i]) ]

\* a in b, for strings
IsSubstr(a, b) ==
    \E i \in 0..(Len(b) - Len(a)) : SubSeq(b, i + 1, i + Len(a)) = a

(* ------------------------------------------------------------------ *)
(* JSON values, as json.loads returns them                             *)
(* ------------------------------------------------------------------ *)

NoFields == [ k \in {} |-> 0 ]

JStr(s)   == [ t |-> "str",  s |-> s,    n |-> 0, f |-> NoFields ]
JNum(n)   == [ t |-> "num",  s |-> <<>>, n |-> n, f |-> NoFields ]
JList(s)  == [ t |-> "list", s |-> s,    n |-> 0, f |-> NoFields ]
JNull     == [ t |-> "null", s |-> <<>>, n |-> 0, f |-> NoFields ]
JObj(f)   == [ t |-> "obj",  s |-> <<>>, n |-> 0, f |-> f ]

\* the payload is not JSON at all: json.loads raises JSONDecodeError
Garbage   == [ t |-> "garbage", s |-> <<>>, n |-> 0, f |-> NoFields ]
\* Python's None as the second component of validate's result
NoneValue == [ t |-> "None", s |-> <<>>, n |-> 0, f |-> NoFields ]

\* Python truthiness of a parsed JSON value ("not v" is ~Truthy(v))
Truthy(v) ==
    CASE v.t = "str"  -> v.s # <<>>
      [] v.t = "list" -> v.s # <<>>
      [] v.t = "num"  -> v.n # 0
      [] v.t = "obj"  -> DOMAIN v.f # {}
      [] OTHER        -> FALSE


(* ------------------------------------------------------------------ *)
(* Design system                                                       *)
(* ------------------------------------------------------------------ *)

\* the "tokens" mapping of the design system: a function from the token
\* names that are present to their text
TokenGet(tokens, name, default) ==
    IF name \in DOMAIN tokens THEN tokens[name] ELSE default

\* "#6366f1"
DefaultPrimary == << "#", "6" >>
\* "rgba(255,255,255,0.1)"
DefaultGlass   == << "rgba", "(", "255", ")" >>
\* "8px"
DefaultRadius  == << "8px" >>
\* "Inter, sans-serif"
DefaultFont    == << "Inter" >>

(* ------------------------------------------------------------------ *)
(* validator.py                                                        *)
(* ------------------------------------------------------------------ *)

Err(msg, arg) == [ msg |-> msg, arg |-> arg ]

InvalidJsonError == Err("Invalid JSON format or non-JSON output generated.", <<>>)

MissingOrEmptyError(part) ==
    IF part = "html"
    THEN Err("Missing or empty component part: html", <<>>)
    ELSE Err("Missing or empty component part: typescript", <<>>)

MissingCssError == Err("Missing component part: css", <<>>)

UnbalancedBracesError(key) ==
    IF key = "typescript"
    THEN Err("Unbalanced curly braces in typescript", <<>>)
    ELSE Err("Unbalanced curly braces in css", <<>>)

UnbalancedParensError(key) ==
    IF key = "typescript"
    THEN Err("Unbalanced parentheses in typescript", <<>>)
    ELSE Err("Unbalanced parentheses in css", <<>>)

\* f"Design Token Violation: Primary color '{primary_color}' was not used."
DesignTokenError(primary_color) ==
    Err("Design Token Violation: Primary color was not used.", primary_color)

\* the pattern matches anywhere in the text, inside the strings of the
\* payload as well: every run of three backticks in a string is taken out;
\* Backticks is such a run, as one character of a text
Backticks == "backticks"

WithoutTicks(text) == SelectSeq(text, LAMBDA c : c # Backticks)

Unfenced(v) ==
    CASE v.t = "str"  -> JStr(WithoutTicks(v.s))
      [] v.t = "list" -> JList(WithoutTicks(v.s))
      [] v.t = "obj"  ->
            JObj([ k \in DOMAIN v.f |->
                    IF v.f[k].t \in { "str", "list" }
                    THEN [ v.f[k] EXCEPT !.s = WithoutTicks(v.f[k].s) ]
                    ELSE v.f[k] ])
      [] OTHER        -> v

\* re.sub(r"```json\n?|\n?```", "", raw_json).strip(): a ```json fence and
\* a bare ``` fence disappear; of a fence with another language tag the tag
\* stays in front of the payload; prose around the payload stays
StripFences(raw) ==
    [ lead    |-> raw.lead,
      residue |-> raw.fence = "lang",
      doc     |-> Unfenced(raw.doc) ]

\* json.loads raises JSONDecodeError
JsonDecodeFails(cleaned) ==
    cleaned.lead \/ cleaned.residue \/ cleaned.doc.t = "garbage"

\* the characters of a part name, for the substring test on a JSON string
PartChars(part) ==
    CASE part = "html"       -> << "h", "t", "m", "l" >>
      [] part = "css"        -> << "c", "s", "s" >>
      [] part = "typescript" -> << "t", "s" >>

\* "part in code_dict" raises TypeError: the value is not a container
InRaises(d) == d.t \in { "num", "null" }

\* "part in code_dict", for a container
ContainsKey(d, part) ==
    CASE d.t = "obj"  -> part \in DOMAIN d.f
      [] d.t = "list" -> part \in Range(d.s)
      [] d.t = "str"  -> IsSubstr(PartChars(part), d.s)
      [] OTHER        -> FALSE

\* code_dict[part] raises TypeError: a list or a string indexed by a string
IndexRaises(d, part) == d.t \in { "list", "str" } /\ ContainsKey(d, part)

\* a required-part test that looks at the key only
MissingOnly(d, part) == ~ContainsKey(d, part)

\* "part not in code_dict or not code_dict[part]"
MissingOrEmpty(d, part) ==
    ~ContainsKey(d, part) \/ ~Truthy(d.f[part])

\* a required-part check that takes css for optional
RequiredErrorsNoCss(d) ==
    (IF MissingOrEmpty(d, "html") THEN << MissingOrEmptyError("html") >> ELSE <<>>)
    \o (IF MissingOrEmpty(d, "typescript")
        THEN << MissingOrEmptyError("typescript") >> ELSE <<>>)

\* a required-part check that stops at the first error
RequiredErrorsShortCircuit(d) ==
    IF MissingOrEmpty(d, "html") THEN << MissingOrEmptyError("html") >>
    ELSE IF MissingOrEmpty(d, "typescript")
    THEN << MissingOrEmptyError("typescript") >>
    ELSE IF ~ContainsKey(d, "css") THEN << MissingCssError >>
    ELSE <<>>

\* lines 20-24: the required-part errors, accumulated in order
RequiredErrors(d) ==
    (IF MissingOrEmpty(d, "html") THEN << MissingOrEmptyError("html") >> ELSE <<>>)
    \o (IF MissingOrEmpty(d, "typescript")
        THEN << MissingOrEmptyError("typescript") >> ELSE <<>>)
    \o (IF ~ContainsKey(d, "css") THEN << MissingCssError >> ELSE <<>>)

\* lines 20-24 raise instead of finishing
RequiredRaises(d) ==
    InRaises(d) \/ IndexRaises(d, "html") \/ IndexRaises(d, "typescript")

\* code_dict.get(key, "")
PartOrEmpty(d, key) == IF key \in DOMAIN d.f THEN d.f[key] ELSE JStr(<<>>)

\* content.count(...) exists: str.count and list.count
HasCount(v) == v.t \in { "str", "list" }

\* a syntax check that forgets the parentheses
SyntaxErrorsBracesOnly(d, key) ==
    LET content == PartOrEmpty(d, key) IN
    IF Count(content.s, "{") # Count(content.s, "}")
    THEN << UnbalancedBracesError(key) >> ELSE <<>>

SyntaxErrorsOf(d, key) ==
    LET content == PartOrEmpty(d, key) IN
    (IF Count(content.s, "{") # Count(content.s, "}")
     THEN << UnbalancedBracesError(key) >> ELSE <<>>)
    \o (IF Count(content.s, "(") # Count(content.s, ")")
        THEN << UnbalancedParensError(key) >> ELSE <<>>)

\* _check_syntax, for a document that passed the required-part check
CheckSyntax(d) == SyntaxErrorsOf(d, "typescript") \o SyntaxErrorsOf(d, "css")

CheckSyntaxRaises(d) ==
    ~HasCount(PartOrEmpty(d, "typescript")) \/ ~HasCount(PartOrEmpty(d, "css"))

\* (html + css).lower() raises unless both are strings
FullCodeRaises(d) ==
    PartOrEmpty(d, "html").t # "str" \/ PartOrEmpty(d, "css").t # "str"

\* a design check that searches the typescript as well
CheckDesignComplianceAllParts(d, tokens) ==
    LET primary_color == Lower(TokenGet(tokens, "primary-color", <<>>))
        full_code     == Lower(PartOrEmpty(d, "html").s \o PartOrEmpty(d, "css").s
                               \o PartOrEmpty(d, "typescript").s)
    IN  IF primary_color # <<>> /\ ~IsSubstr(primary_color, full_code)
        THEN << DesignTokenError(primary_color) >>
        ELSE <<>>

\* _check_design_compliance, for a document whose html and css are strings
CheckDesignCompliance(d, tokens) ==
    LET primary_color == Lower(TokenGet(tokens, "primary-color", <<>>))
        full_code     == Lower(PartOrEmpty(d, "html").s \o PartOrEmpty(d, "css").s)
    IN  IF primary_color # <<>> /\ ~IsSubstr(primary_color, full_code)
        THEN << DesignTokenError(primary_color) >>
        ELSE <<>>

Outcome(raised, errors, code_dict) ==
    [ raised |-> raised, errors |-> errors, code_dict |-> code_dict ]

\* a validate that runs the syntax and design checks whatever the
\* required-part check found
ValidateAllChecks(raw, tokens) ==
    LET cleaned == StripFences(raw)
        d       == cleaned.doc
    IN  IF JsonDecodeFails(cleaned)
        THEN Outcome(FALSE, << InvalidJsonError >>, NoneValue)
        ELSE IF RequiredRaises(d) \/ CheckSyntaxRaises(d) \/ FullCodeRaises(d)
        THEN Outcome(TRUE, <<>>, NoneValue)
        ELSE Outcome(FALSE, RequiredErrors(d) \o CheckSyntax(d)
                            \o CheckDesignCompliance(d, tokens), d)

\* CodeValidator.validate: the pair it returns, or the exception it lets out
Validate(raw, tokens) ==
    LET cleaned == StripFences(raw)
        d       == cleaned.doc
    IN  IF JsonDecodeFails(cleaned)
        THEN Outcome(FALSE, << InvalidJsonError >>, NoneValue)
        ELSE IF RequiredRaises(d)
        THEN Outcome(TRUE, <<>>, NoneValue)
        ELSE IF RequiredErrors(d) # <<>>
        THEN Outcome(FALSE, RequiredErrors(d), d)
        ELSE IF CheckSyntaxRaises(d) \/ FullCodeRaises(d)
        THEN Outcome(TRUE, <<>>, NoneValue)
        ELSE Outcome(FALSE, CheckSyntax(d) \o CheckDesignCompliance(d, tokens), d)

(* ------------------------------------------------------------------ *)
(* generator.py: prompts                                               *)
(* ------------------------------------------------------------------ *)

RegisterKeywords  == { "register", "signup", "sign up", "create account" }
NavbarKeywords    == { "navbar", "navigation", "nav bar", "header", "topbar" }
DashboardKeywords == { "dashboard", "stats", "analytics", "overview", "metric" }
ProfileKeywords   == { "profile", "user card", "avatar", "account" }
ButtonKeywords    == { "button", "btn", "cta" }

\* the user requests of the model, and for each the keywords of the offline
\* generator's table (and "login") that are substrings of its lower-cased text
RequestTexts ==
    { "A pricing table", "A modern login card", "Create Account form",
      "A navbar with a CTA", "Stats overview", "User card with avatar" }

OccursIn(text) ==
    CASE text = "A pricing table"     -> {}
      [] text = "A modern login card" -> { "login" }
      [] text = "Create Account form" -> { "create account", "account" }
      [] text = "A navbar with a CTA" -> { "navbar", "cta" }
      [] text = "Stats overview"      -> { "stats", "overview" }
      [] text = "User card with avatar" -> { "user card", "avatar" }
      [] OTHER                        -> {}

\* conversation_history[:3]
FirstThree(h) == IF Len(h) <= 3 THEN h ELSE SubSeq(h, 1, 3)

\* conversation_history[-3:]
LastThree(h) == IF Len(h) <= 3 THEN h ELSE SubSeq(h, Len(h) - 2, Len(h))

NoTokens == [ k \in {} |-> <<>> ]

Prompt(kind, request, context, tokens, errs, color) ==
    [ kind |-> kind, request |-> request, context |-> context,
      tokens |-> tokens, errors |-> errs, color |-> color ]

\* main.py lines 10-16 with build_prompt: the instruction text around the
\* token mapping, the context lines (one "Previous: ..." line for each of
\* the last three history entries) and the request
BuildPrompt(user_prompt, conversation_history, tokens) ==
    Prompt("initial", user_prompt,
           IF conversation_history # <<>> THEN LastThree(conversation_history)
           ELSE <<>>,
           tokens, <<>>, <<>>)

\* a corrective prompt that repeats the token mapping of the first prompt
CorrectivePromptWithTokens(errs, tokens) ==
    Prompt("corrective", "", <<>>, tokens, errs,
           TokenGet(tokens, "primary-color", DefaultPrimary))

\* main.py lines 35-43: one "- error" line for each error, then the primary
\* color, "#6366f1" when the token is absent
CorrectivePrompt(errs, tokens) ==
    Prompt("corrective", "", <<>>, NoTokens, errs,
           TokenGet(tokens, "primary-color", DefaultPrimary))

\* the keywords that are substrings of prompt.lower(): the instruction text
\* of build_prompt holds "MatButton", so "button"; the corrective text and
\* the error messages hold none
KeywordsOfPrompt(p) ==
    IF p.kind = "initial"
    THEN { "button" } \cup OccursIn(p.request)
         \cup UNION { OccursIn(p.context[i]) : i \in 1..Len(p.context) }
    ELSE {}

(* ------------------------------------------------------------------ *)
(* generator.py: the offline generator                                 *)
(* ------------------------------------------------------------------ *)

\* a cascade that tests the profile group before the register group
TemplateForProfileFirst(p) ==
    LET k == KeywordsOfPrompt(p) IN
    CASE k \cap ProfileKeywords   # {} -> "profile"
      [] k \cap RegisterKeywords  # {} -> "register"
      [] k \cap NavbarKeywords    # {} -> "navbar"
      [] k \cap DashboardKeywords # {} -> "dashboard"
      [] k \cap ButtonKeywords    # {} -> "buttons"
      [] OTHER                         -> "login"

\* the cascade of _mock_for_prompt: the first group with a keyword in p
TemplateFor(p) ==
    LET k == KeywordsOfPrompt(p) IN
    CASE k \cap RegisterKeywords  # {} -> "register"
      [] k \cap NavbarKeywords    # {} -> "navbar"
      [] k \cap DashboardKeywords # {} -> "dashboard"
      [] k \cap ProfileKeywords   # {} -> "profile"
      [] k \cap ButtonKeywords    # {} -> "buttons"
      [] OTHER                         -> "login"

TsClass(template) ==
    CASE template = "register"  -> "RegisterComponent"
      [] template = "navbar"    -> "NavbarComponent"
      [] template = "dashboard" -> "DashboardComponent"
      [] template = "profile"   -> "ProfileComponent"
      [] template = "buttons"   -> "ButtonShowcaseComponent"
      [] OTHER                  -> "LoginComponent"

\* the html of a template: its markup with the tokens it embeds
MockHtml(template, p, primary, bg, radius) ==
    LET title == IF "login" \in KeywordsOfPrompt(p) THEN "Login" ELSE "Sign In" IN
    CASE template \in { "register", "profile" } ->
             << "<div", template >> \o bg \o radius \o primary \o << "</div>" >>
      [] template = "navbar" ->
             << "<nav", template >> \o primary \o radius \o << "</nav>" >>
      [] template \in { "dashboard", "buttons" } ->
             << "<div", template >> \o primary \o radius \o << "</div>" >>
      [] OTHER ->
             << "<div", template >> \o bg \o radius \o primary
                \o << title, "</div>" >>

\* lines 305-318: the three parts, serialized with json.dumps
MockForPrompt(p, tokens) ==
    LET primary  == TokenGet(tokens, "primary-color", DefaultPrimary)
        bg       == TokenGet(tokens, "glass-background", DefaultGlass)
        radius   == TokenGet(tokens, "border-radius", DefaultRadius)
        font     == TokenGet(tokens, "font-family", DefaultFont)
        template == TemplateFor(p)
        html     == MockHtml(template, p, primary, bg, radius)
        css      == << "/*", TsClass(template) >> \o primary
                       \o << "*/", "*", "{" >> \o font \o << "}" >>
        ts       == << "import", "{", "Component", "}", "@Component", "(", "{",
                       template, "}", ")", "class", TsClass(template), "{", "}" >>
    IN  [ lead  |-> FALSE,
          fence |-> "none",
          doc   |-> JObj([ k \in { "html", "css", "typescript" } |->
                            CASE k = "html" -> JStr(html)
                              [] k = "css"  -> JStr(css)
                              [] OTHER      -> JStr(ts) ]) ]

(* ------------------------------------------------------------------ *)
(* generator.py: providers                                             *)
(* ------------------------------------------------------------------ *)

\* list(SUPPORTED_MODELS.keys())
AllProviders == << "groq", "openai", "claude", "gemini" >>

Providers == Range(AllProviders)

\* _get_key: the runtime key, or else the key of the environment
HasKey(runtime, env, provider) == provider \in runtime \/ provider \in env

\* _init_clients: a client for each provider with a key whose library imports
InitClients(runtime, env, importable) ==
    { p \in Providers : HasKey(runtime, env, p) /\ p \in importable }

\* an ordered list that forgets the preference
OrderedIgnoringPreference(preference) == AllProviders

\* line 156: the preferred provider, then the others in their listed order
OrderedProviders(preference) ==
    << preference >> \o SelectSeq(AllProviders, LAMBDA p : p # preference)

\* _call_gemini, line 135: the configured model id, which is
\* "gemini-2.0-flash", then the three alternates
GeminiCandidates ==
    << "gemini-2.0-flash", "gemini-2.0-flash", "gemini-1.5-flash",
       "gemini-1.5-flash-latest" >>

\* what generate_content does for one model id: it returns a text, or it
\* raises an error with the text msg
GeminiReturns(text) == [ ok |-> TRUE, text |-> text, msg |-> <<>> ]
GeminiRaises(msg)   == [ ok |-> FALSE, text |-> <<>>, msg |-> msg ]

\* line 146: "404" in str(e)
Mentions404(msg) == IsSubstr(<< "404" >>, msg)

\* lines 138-151 from candidate i on, when generate_content answers the
\* call for candidate j with answers[j]: the ids called, and the text
\* returned or the error raised
RECURSIVE CallGeminiFrom(_, _)
CallGeminiFrom(i, answers) ==
    IF i > Len(GeminiCandidates)
    THEN [ ok |-> FALSE, text |-> <<>>, msg |-> answers[i - 1].msg,
           models |-> GeminiCandidates ]
    ELSE IF answers[i].ok
    THEN [ ok |-> TRUE, text |-> answers[i].text, msg |-> <<>>,
           models |-> SubSeq(GeminiCandidates, 1, i) ]
    ELSE IF Mentions404(answers[i].msg)
    THEN CallGeminiFrom(i + 1, answers)
    ELSE [ ok |-> FALSE, text |-> <<>>, msg |-> answers[i].msg,
           models |-> SubSeq(GeminiCandidates, 1, i) ]

CallGemini(answers) == CallGeminiFrom(1, answers)

\* _load_design_system: the tokens of the file, or none without a file
LoadDesignSystem(file) == IF file.exists THEN file.tokens ELSE NoTokens

(* ------------------------------------------------------------------ *)
(* State                                                               *)
(* ------------------------------------------------------------------ *)

VARIABLES
    \* the arguments of orchestrate_agentic_loop
    user_prompt, max_retries, model_preference, conversation_history, api_keys,
    \* the environment: keys of the process environment, the provider
    \* libraries that import, the design-system file, the texts a provider
    \* may answer with
    env_keys, importable, design_file, provider_texts,
    \* ComponentGenerator: self.clients and self.design_system["tokens"]
    clients, tokens,
    \* the generator's position: the step of the event it is suspended at,
    \* "start" before the first pull, "call_llm" inside call_llm, "blocked"
    \* inside a provider call that does not answer, "done" after it
    \* returned, "raised" after an exception left it
    pc,
    \* the locals of orchestrate_agentic_loop
    attempt, current_prompt, raw_output, errors, code_dict,
    \* the events yielded so far, and the value returned
    events, result,
    \* call_llm: the index into its ordered list
    llm_idx,
    \* the provider calls made and the validate calls made, in order
    llm_log, val_log,
    \* a second call of orchestrate_agentic_loop in the same process: the
    \* number of the generator object whose frame the variables above
    \* hold, and the frame of the other generator object, suspended
    active, suspended

vars == << user_prompt, max_retries, model_preference, conversation_history,
           api_keys, env_keys, importable, design_file, provider_texts,
           clients, tokens, pc, attempt, current_prompt, raw_output, errors,
           code_dict, events, result, llm_idx, llm_log, val_log,
           active, suspended >>

\* what a run never changes: its arguments and the environment
args == << user_prompt, max_retries, model_preference, conversation_history,
           api_keys, env_keys, importable, design_file, provider_texts >>

\* the other generator object: no step of a run touches its frame
others == << active, suspended >>

\* the "data" of an event that has no "data" key
Absent == [ t |-> "absent", s |-> <<>>, n |-> 0, f |-> NoFields ]

Event(step, value, errs, data) ==
    [ step |-> step, value |-> value, errors |-> errs, data |-> data ]

\* a raw text without prose or fence around its payload
Plain(doc) == [ lead |-> FALSE, fence |-> "none", doc |-> doc ]

NoRaw == Plain(Garbage)

NoPrompt == Prompt("none", "", <<>>, NoTokens, <<>>, <<>>)

(* ------------------------------------------------------------------ *)
(* main.py: orchestrate_agentic_loop, one action for each resumption   *)
(* ------------------------------------------------------------------ *)

\* range(1, max_retries + 1) is not exhausted after `n` iterations
LoopHasNext(n) == n + 1 <= max_retries

\* a retry condition that lets the last attempt retry as well
RetryAllowedInclusive == attempt <= max_retries

\* a retry condition that gives up one attempt early
RetryAllowedEarly == attempt + 1 < max_retries

\* line 33: another attempt follows this failed one
RetryAllowed == attempt < max_retries

\* the first pull: lines 6-19 (the constructors, the prompt, the first
\* "attempt" event); with an empty range the generator returns at once
Start ==
    /\ pc = "start"
    /\ clients' = InitClients(api_keys, env_keys, importable)
    /\ tokens' = LoadDesignSystem(design_file)
    /\ current_prompt' = BuildPrompt(user_prompt, conversation_history, tokens')
    /\ IF LoopHasNext(0)
       THEN /\ attempt' = 1
            /\ events' = Append(events, Event("attempt", 1, <<>>, Absent))
            /\ pc' = "attempt"
            /\ UNCHANGED result
       ELSE /\ pc' = "done"
            /\ result' = NoneValue
            /\ UNCHANGED << attempt, events >>
    /\ UNCHANGED << args, others, raw_output, errors, code_dict, llm_idx, llm_log, val_log >>

\* a body that calls call_llm before it yields "generating"
PullAttemptEager ==
    /\ pc = "attempt"
    /\ pc' = "call_llm"
    /\ llm_idx' = 1
    /\ UNCHANGED << args, others, clients, tokens, attempt, current_prompt, raw_output,
                    errors, code_dict, events, result, llm_log, val_log >>

\* line 20
PullAttempt ==
    /\ pc = "attempt"
    /\ events' = Append(events, Event("generating", attempt, <<>>, Absent))
    /\ pc' = "generating"
    /\ UNCHANGED << args, others, clients, tokens, attempt, current_prompt, raw_output,
                    errors, code_dict, result, llm_idx, llm_log, val_log >>

\* line 22: call_llm is entered, at the head of its ordered list
PullGenerating ==
    /\ pc = "generating"
    /\ pc' = "call_llm"
    /\ llm_idx' = 1
    /\ UNCHANGED << args, others, clients, tokens, attempt, current_prompt, raw_output,
                    errors, code_dict, events, result, llm_log, val_log >>

LlmCall(provider, ok, text) ==
    [ attempt |-> attempt, provider |-> provider, ok |-> ok, text |-> text ]

\* call_llm returns `text`; line 24 yields "validating"
LlmReturn(text) ==
    /\ raw_output' = text
    /\ events' = Append(events, Event("validating", 0, <<>>, Absent))
    /\ pc' = "validating"

\* line 166
HasClient(provider) == provider \in clients

\* lines 166-167: a provider without a client is passed over
LlmSkip ==
    /\ pc = "call_llm"
    /\ llm_idx <= Len(OrderedProviders(model_preference))
    /\ ~HasClient(OrderedProviders(model_preference)[llm_idx])
    /\ llm_idx' = llm_idx + 1
    /\ UNCHANGED << args, others, clients, tokens, pc, attempt, current_prompt, raw_output,
                    errors, code_dict, events, result, llm_log, val_log >>

\* lines 168-172: the provider answers and call_llm returns its text
LlmCallOk ==
    /\ pc = "call_llm"
    /\ llm_idx <= Len(OrderedProviders(model_preference))
    /\ HasClient(OrderedProviders(model_preference)[llm_idx])
    /\ \E text \in provider_texts :
          /\ LlmReturn(text)
          /\ llm_log' = Append(llm_log,
                 LlmCall(OrderedProviders(model_preference)[llm_idx], TRUE, text))
    /\ UNCHANGED << args, others, clients, tokens, attempt, current_prompt, errors,
                    code_dict, result, llm_idx, val_log >>

\* a provider failure that is not caught and leaves call_llm
LlmCallFailPropagates ==
    /\ pc = "call_llm"
    /\ llm_idx <= Len(OrderedProviders(model_preference))
    /\ HasClient(OrderedProviders(model_preference)[llm_idx])
    /\ llm_log' = Append(llm_log,
           LlmCall(OrderedProviders(model_preference)[llm_idx], FALSE, NoRaw))
    /\ pc' = "raised"
    /\ UNCHANGED << args, others, clients, tokens, attempt, current_prompt, raw_output,
                    errors, code_dict, events, result, llm_idx, val_log >>

\* lines 173-174: the provider fails, the exception is caught and logged
LlmCallFail ==
    /\ pc = "call_llm"
    /\ llm_idx <= Len(OrderedProviders(model_preference))
    /\ HasClient(OrderedProviders(model_preference)[llm_idx])
    /\ llm_log' = Append(llm_log,
           LlmCall(OrderedProviders(model_preference)[llm_idx], FALSE, NoRaw))
    /\ llm_idx' = llm_idx + 1
    /\ UNCHANGED << args, others, clients, tokens, pc, attempt, current_prompt, raw_output,
                    errors, code_dict, events, result, val_log >>

\* line 170: the provider neither answers nor fails; the call is made
\* without a timeout and nothing else runs while it is pending
LlmCallHangs ==
    /\ pc = "call_llm"
    /\ llm_idx <= Len(OrderedProviders(model_preference))
    /\ HasClient(OrderedProviders(model_preference)[llm_idx])
    /\ pc' = "blocked"
    /\ UNCHANGED << args, others, clients, tokens, attempt, current_prompt, raw_output,
                    errors, code_dict, events, result, llm_idx, llm_log, val_log >>

\* line 170 for gemini, with _call_gemini: the call returns a text, or it
\* raises and call_llm goes on to the next provider; the log keeps the
\* model ids called and what generate_content did for each
GeminiCall ==
    /\ pc = "call_llm"
    /\ llm_idx <= Len(OrderedProviders(model_preference))
    /\ OrderedProviders(model_preference)[llm_idx] = "gemini"
    /\ HasClient("gemini")
    /\ \E answers \in [ 1..Len(GeminiCandidates) -> provider_texts ] :
          LET r == CallGemini(answers)
              entry == [ attempt |-> attempt, provider |-> "gemini", ok |-> r.ok,
                         text |-> r.text, models |-> r.models,
                         answers |-> SubSeq(answers, 1, Len(r.models)) ]
          IN  /\ llm_log' = Append(llm_log, entry)
              /\ IF r.ok
                 THEN /\ LlmReturn(r.text)
                      /\ UNCHANGED llm_idx
                 ELSE /\ llm_idx' = llm_idx + 1
                      /\ UNCHANGED << raw_output, events, pc >>
    /\ UNCHANGED << args, others, clients, tokens, attempt, current_prompt, errors,
                    code_dict, result, val_log >>

\* lines 176-178: past the end of the list, the offline generator answers
LlmMock ==
    /\ pc = "call_llm"
    /\ llm_idx > Len(OrderedProviders(model_preference))
    /\ LlmReturn(MockForPrompt(current_prompt, tokens))
    /\ UNCHANGED << args, others, clients, tokens, attempt, current_prompt, errors,
                    code_dict, result, llm_idx, llm_log, val_log >>

\* a "success" event that carries the artifact kept from the attempt before
SuccessDataStale(out) == code_dict

\* line 28: the "data" of the "success" event
SuccessData(out) == out.code_dict

\* a "max_retries" event that carries the last artifact that parsed, of
\* whichever attempt
MaxRetriesDataBestEffort ==
    LET parsed == SelectSeq(val_log, LAMBDA v : v.out.code_dict # NoneValue)
    IN  IF parsed = <<>> THEN NoneValue ELSE parsed[Len(parsed)].out.code_dict

\* line 45: the "data" of the "max_retries" event
MaxRetriesData == code_dict

\* a validator that keeps its error list between calls
PullValidatingAccumulating ==
    /\ pc = "validating"
    /\ LET fresh == Validate(raw_output, tokens)
           out   == IF fresh.raised THEN fresh
                    ELSE Outcome(FALSE, errors \o fresh.errors, fresh.code_dict)
       IN
       /\ val_log' = Append(val_log, [ raw |-> raw_output, out |-> out ])
       /\ IF out.raised
          THEN /\ pc' = "raised"
               /\ UNCHANGED << errors, code_dict, events >>
          ELSE /\ errors' = out.errors
               /\ code_dict' = out.code_dict
               /\ IF out.errors = <<>>
                  THEN /\ events' = Append(events,
                                       Event("success", 0, <<>>, out.code_dict))
                       /\ pc' = "success"
                  ELSE /\ events' = Append(events,
                                       Event("failed", Len(out.errors),
                                             out.errors, Absent))
                       /\ pc' = "failed"
    /\ UNCHANGED << args, others, clients, tokens, attempt, current_prompt, raw_output,
                    result, llm_idx, llm_log >>

\* lines 25-31: validate, then "success" or "failed"; an exception of
\* validate leaves the generator
PullValidating ==
    /\ pc = "validating"
    /\ LET out == Validate(raw_output, tokens) IN
       /\ val_log' = Append(val_log, [ raw |-> raw_output, out |-> out ])
       /\ IF out.raised
          THEN /\ pc' = "raised"
               /\ UNCHANGED << errors, code_dict, events >>
          ELSE /\ errors' = out.errors
               /\ code_dict' = out.code_dict
               /\ IF out.errors = <<>>
                  THEN /\ events' = Append(events,
                                       Event("success", 0, <<>>, SuccessData(out)))
                       /\ pc' = "success"
                  ELSE /\ events' = Append(events,
                                       Event("failed", Len(out.errors),
                                             out.errors, Absent))
                       /\ pc' = "failed"
    /\ UNCHANGED << args, others, clients, tokens, attempt, current_prompt, raw_output,
                    result, llm_idx, llm_log >>

\* line 29
PullSuccess ==
    /\ pc = "success"
    /\ result' = code_dict
    /\ pc' = "done"
    /\ UNCHANGED << args, others, clients, tokens, attempt, current_prompt, raw_output,
                    errors, code_dict, events, llm_idx, llm_log, val_log >>

\* the retry branch without its "correcting" event
PullFailedSkipsCorrecting ==
    /\ pc = "failed"
    /\ IF RetryAllowed
       THEN /\ pc' = "correcting"
            /\ UNCHANGED events
       ELSE /\ events' = Append(events, Event("max_retries", 0, <<>>, MaxRetriesData))
            /\ pc' = "max_retries"
    /\ UNCHANGED << args, others, clients, tokens, attempt, current_prompt, raw_output,
                    errors, code_dict, result, llm_idx, llm_log, val_log >>

\* lines 33-34 and 44-45
PullFailed ==
    /\ pc = "failed"
    /\ IF RetryAllowed
       THEN /\ events' = Append(events, Event("correcting", 0, <<>>, Absent))
            /\ pc' = "correcting"
       ELSE /\ events' = Append(events, Event("max_retries", 0, <<>>, MaxRetriesData))
            /\ pc' = "max_retries"
    /\ UNCHANGED << args, others, clients, tokens, attempt, current_prompt, raw_output,
                    errors, code_dict, result, llm_idx, llm_log, val_log >>

\* a corrective prompt that keeps the errors of the prompt before it
PullCorrectingAccumulating ==
    /\ pc = "correcting"
    /\ current_prompt' = CorrectivePrompt(current_prompt.errors \o errors, tokens)
    /\ attempt' = attempt + 1
    /\ events' = Append(events, Event("attempt", attempt + 1, <<>>, Absent))
    /\ pc' = "attempt"
    /\ UNCHANGED << args, others, clients, tokens, raw_output, errors, code_dict, result,
                    llm_idx, llm_log, val_log >>

\* lines 35-43, then the next iteration: lines 18-19
PullCorrecting ==
    /\ pc = "correcting"
    /\ current_prompt' = CorrectivePrompt(errors, tokens)
    /\ attempt' = attempt + 1
    /\ events' = Append(events, Event("attempt", attempt + 1, <<>>, Absent))
    /\ pc' = "attempt"
    /\ UNCHANGED << args, others, clients, tokens, raw_output, errors, code_dict, result,
                    llm_idx, llm_log, val_log >>

\* line 46
PullMaxRetries ==
    /\ pc = "max_retries"
    /\ result' = code_dict
    /\ pc' = "done"
    /\ UNCHANGED << args, others, clients, tokens, attempt, current_prompt, raw_output,
                    errors, code_dict, events, llm_idx, llm_log, val_log >>

CallLlm == LlmSkip \/ LlmCallOk \/ LlmCallFail \/ LlmCallHangs \/ LlmMock

Next ==
    \/ Start
    \/ PullAttempt
    \/ PullGenerating
    \/ CallLlm
    \/ PullValidating
    \/ PullSuccess
    \/ PullFailed
    \/ PullCorrecting
    \/ PullMaxRetries

(* ------------------------------------------------------------------ *)
(* Inputs                                                              *)
(* ------------------------------------------------------------------ *)

Parts == { "html", "css", "typescript" }

Doc(html, css, ts) ==
    JObj([ k \in Parts |-> CASE k = "html" -> html
                             [] k = "css"  -> css
                             [] OTHER      -> ts ])

\* token mappings: none, a primary color in upper case, an empty primary
\* color, a primary color with a font
TokenDocs ==
    { NoTokens,
      "primary-color" :> << "#", "A" >>,
      "primary-color" :> <<>>,
      ("primary-color" :> << "#", "F" >>) @@ ("font-family" :> << "Inter" >>) }

DesignFiles ==
    { [ exists |-> FALSE, tokens |-> NoTokens ] }
    \cup { [ exists |-> TRUE, tokens |-> t ] : t \in TokenDocs }

\* histories of at most MaxHistory earlier requests
Histories ==
    UNION { [ 1..n -> { "A modern login card" } ] : n \in 0..MaxHistory }

\* the answers of a provider in a run of the loop: two distinct artifacts
\* that use both primary colors (one of them inside a ```json fence), an
\* artifact without a color and with unbalanced braces, an artifact without
\* html, text that is not JSON, a JSON list, a JSON number, and an object
\* whose css is null
LoopTexts ==
    { Plain(Doc(JStr(<< "#", "a", "#", "f" >>), JStr(<<>>), JStr(<< "{", "}" >>))),
      [ lead |-> FALSE, fence |-> "json",
        doc |-> Doc(JStr(<< "x" >>), JStr(<< "#", "F", "#", "A" >>), JStr(<< "x" >>)) ],
      Plain(Doc(JStr(<< "x" >>), JStr(<<>>), JStr(<< "{" >>))),
      Plain(JObj(("css" :> JStr(<<>>)) @@ ("typescript" :> JStr(<< "x" >>)))),
      Plain(Garbage),
      Plain(JList(<<>>)),
      Plain(JNum(5)),
      Plain(Doc(JStr(<< "#", "a" >>), JNull, JStr(<< "x" >>))) }

\* the credentials and libraries of a run of the loop: nothing configured;
\* a runtime key for openai; an environment key for groq whose library is
\* missing, with a runtime key for claude
LoopSetups ==
    { [ api_keys |-> {}, env_keys |-> {}, importable |-> Providers ],
      [ api_keys |-> { "openai" }, env_keys |-> {}, importable |-> Providers ],
      [ api_keys |-> { "claude" }, env_keys |-> { "groq" },
        importable |-> Providers \ { "groq" } ] }

\* the process holds one generator object only
NoFrame == [ pc |-> "none" ]

Alone == active = 1 /\ suspended = NoFrame

\* before the first pull nothing of the body has run
Fresh ==
    /\ clients = {}
    /\ tokens = NoTokens
    /\ pc = "start"
    /\ attempt = 0
    /\ current_prompt = NoPrompt
    /\ raw_output = NoRaw
    /\ errors = <<>>
    /\ code_dict = NoneValue
    /\ events = <<>>
    /\ result = NoneValue
    /\ llm_idx = 0
    /\ llm_log = <<>>
    /\ val_log = <<>>

Init ==
    /\ user_prompt \in { "A pricing table", "Create Account form" }
    /\ max_retries \in (0 - 1)..MaxRetriesBound
    /\ model_preference \in { "groq", "gemini" }
    /\ conversation_history \in Histories
    /\ \E setup \in LoopSetups :
          /\ api_keys = setup.api_keys
          /\ env_keys = setup.env_keys
          /\ importable = setup.importable
    /\ design_file \in DesignFiles
    /\ provider_texts = LoopTexts
    /\ Fresh
    /\ Alone

Spec == Init /\ [][Next]_vars

(* ------------------------------------------------------------------ *)
(* the first pull alone: the prompt built from histories of every      *)
(* length up to MaxPromptHistory                                       *)
(* ------------------------------------------------------------------ *)

HistoryTexts == { "A modern login card", "Create Account form", "Stats overview" }

LongHistories ==
    UNION { [ 1..n -> HistoryTexts ] : n \in 0..MaxPromptHistory }

InitPrompt ==
    /\ user_prompt \in { "A pricing table", "A navbar with a CTA" }
    /\ max_retries \in 0..1
    /\ model_preference = "groq"
    /\ conversation_history \in LongHistories
    /\ api_keys = {}
    /\ env_keys = {}
    /\ importable = Providers
    /\ design_file \in { [ exists |-> FALSE, tokens |-> NoTokens ] }
    /\ provider_texts = { Plain(Garbage) }
    /\ Fresh
    /\ Alone

SpecPrompt == InitPrompt /\ [][Start]_vars

(* ------------------------------------------------------------------ *)
(* two calls of orchestrate_agentic_loop in one process, their         *)
(* generator objects pulled in any interleaving                        *)
(* ------------------------------------------------------------------ *)

\* the frame of the generator object that is running: the arguments, the
\* ComponentGenerator of line 6 and the locals of the body
Frame ==
    [ id |-> active,
      user_prompt |-> user_prompt, max_retries |-> max_retries,
      model_preference |-> model_preference,
      conversation_history |-> conversation_history, api_keys |-> api_keys,
      clients |-> clients, tokens |-> tokens, pc |-> pc, attempt |-> attempt,
      current_prompt |-> current_prompt, raw_output |-> raw_output,
      errors |-> errors, code_dict |-> code_dict, events |-> events,
      result |-> result, llm_idx |-> llm_idx, llm_log |-> llm_log,
      val_log |-> val_log ]

\* the generator is suspended at a yield, not started, or finished
AtYield == pc \notin { "call_llm", "blocked" }

\* the consumer turns to the other generator object: the running frame is
\* set aside as it is and the other frame comes back as it was left, but
\* for the attempt counter, which comes back as `counter`
SwitchTo(counter) ==
    /\ AtYield
    /\ suspended # NoFrame
    /\ suspended' = Frame
    /\ active' = suspended.id
    /\ user_prompt' = suspended.user_prompt
    /\ max_retries' = suspended.max_retries
    /\ model_preference' = suspended.model_preference
    /\ conversation_history' = suspended.conversation_history
    /\ api_keys' = suspended.api_keys
    /\ clients' = suspended.clients
    /\ tokens' = suspended.tokens
    /\ pc' = suspended.pc
    /\ attempt' = counter
    /\ current_prompt' = suspended.current_prompt
    /\ raw_output' = suspended.raw_output
    /\ errors' = suspended.errors
    /\ code_dict' = suspended.code_dict
    /\ events' = suspended.events
    /\ result' = suspended.result
    /\ llm_idx' = suspended.llm_idx
    /\ llm_log' = suspended.llm_log
    /\ val_log' = suspended.val_log
    /\ UNCHANGED << env_keys, importable, design_file, provider_texts >>

\* an attempt counter that the two generator objects share
SwitchRunSharedCounter == SwitchTo(attempt)

\* `attempt` is a local of the generator's frame
SwitchRun == SwitchTo(suspended.attempt)

\* the answers of a provider to the two runs: an artifact that uses the
\* primary color, an artifact without html, an artifact that does not use
\* the primary color
TwoRunTexts ==
    { Plain(Doc(JStr(<< "#", "a" >>), JStr(<<>>), JStr(<< "x" >>))),
      Plain(JObj(("css" :> JStr(<<>>)) @@ ("typescript" :> JStr(<< "x" >>)))),
      Plain(Doc(JStr(<< "x" >>), JStr(<<>>), JStr(<< "{" >>))) }

\* the second call before its first pull: another request, a history, a
\* runtime key for claude or none
SecondCall(r, keys) ==
    [ id |-> 2,
      user_prompt |-> "Create Account form", max_retries |-> r,
      model_preference |-> "gemini",
      conversation_history |-> << "A modern login card" >>, api_keys |-> keys,
      clients |-> {}, tokens |-> NoTokens, pc |-> "start", attempt |-> 0,
      current_prompt |-> NoPrompt, raw_output |-> NoRaw,
      errors |-> <<>>, code_dict |-> NoneValue, events |-> <<>>,
      result |-> NoneValue, llm_idx |-> 0, llm_log |-> <<>>,
      val_log |-> <<>> ]

InitTwoRuns ==
    /\ user_prompt = "A pricing table"
    /\ max_retries = 2
    /\ model_preference = "groq"
    /\ conversation_history = <<>>
    /\ api_keys = { "openai" }
    /\ env_keys = {}
    /\ importable = Providers
    /\ design_file \in { [ exists |-> TRUE,
                            tokens |-> "primary-color" :> << "#", "A" >> ] }
    /\ provider_texts = TwoRunTexts
    /\ Fresh
    /\ active = 1
    /\ suspended \in { SecondCall(r, keys) : r \in 1..2, keys \in { {}, { "claude" } } }

NextTwoRuns == Next \/ SwitchRun

SpecTwoRuns == InitTwoRuns /\ [][NextTwoRuns]_vars

(* ------------------------------------------------------------------ *)
(* runs without a usable provider: every answer is the offline         *)
(* generator's                                                         *)
(* ------------------------------------------------------------------ *)

\* token mappings of a design-system file: none, primary colors in upper
\* case, with a font, empty, a font with an unbalanced brace, a primary
\* color that is a run of three backticks
OfflineTokenDocs ==
    { NoTokens,
      "primary-color" :> << "#", "A" >>,
      ("primary-color" :> << "#", "F" >>) @@ ("font-family" :> << "Inter" >>),
      "primary-color" :> <<>>,
      ("primary-color" :> << "#", "A" >>) @@ ("font-family" :> << "{" >>),
      "primary-color" :> << Backticks >> }

OfflineDesignFiles ==
    { [ exists |-> FALSE, tokens |-> NoTokens ] }
    \cup { [ exists |-> TRUE, tokens |-> t ] : t \in OfflineTokenDocs }

\* no runtime key; no environment key, or one for groq whose library is
\* missing
InitOffline ==
    /\ user_prompt \in RequestTexts
    /\ max_retries \in 1..MaxRetriesBound
    /\ model_preference = "groq"
    /\ conversation_history \in UNION { [ 1..n -> RequestTexts ] : n \in 0..MaxHistory }
    /\ api_keys = {}
    /\ env_keys \in { {}, { "groq" } }
    /\ importable = Providers \ { "groq" }
    /\ design_file \in OfflineDesignFiles
    /\ provider_texts = { Plain(Garbage) }
    /\ Fresh
    /\ Alone

NextOffline ==
    \/ Start
    \/ PullAttempt
    \/ PullGenerating
    \/ LlmSkip
    \/ LlmMock
    \/ PullValidating
    \/ PullSuccess
    \/ PullFailed
    \/ PullCorrecting
    \/ PullMaxRetries

SpecOffline == InitOffline /\ [][NextOffline]_vars

(* ------------------------------------------------------------------ *)
(* call_llm alone: one call, from every configuration of keys,         *)
(* libraries and preference                                            *)
(* ------------------------------------------------------------------ *)

\* the state in which the first call_llm of a run is entered
InitCallLlm ==
    /\ user_prompt \in { "A pricing table" }
    /\ max_retries = 1
    /\ model_preference \in Providers \cup { "mistral" }
    /\ conversation_history = <<>>
    /\ api_keys \in SUBSET Providers
    /\ env_keys \in SUBSET Providers
    /\ importable \in SUBSET Providers
    /\ design_file \in { [ exists |-> FALSE, tokens |-> NoTokens ] }
    /\ provider_texts = { Plain(Garbage), Plain(JList(<<>>)) }
    /\ clients = InitClients(api_keys, env_keys, importable)
    /\ tokens = LoadDesignSystem(design_file)
    /\ pc = "call_llm"
    /\ attempt = 1
    /\ current_prompt = BuildPrompt(user_prompt, conversation_history, tokens)
    /\ raw_output = NoRaw
    /\ errors = <<>>
    /\ code_dict = NoneValue
    /\ events = << Event("attempt", 1, <<>>, Absent),
                   Event("generating", 1, <<>>, Absent) >>
    /\ result = NoneValue
    /\ llm_idx = 1
    /\ llm_log = <<>>
    /\ val_log = <<>>
    /\ Alone

SpecCallLlm == InitCallLlm /\ [][CallLlm]_vars

(* ------------------------------------------------------------------ *)
(* call_llm with gemini as the only client: one call, the gemini call  *)
(* in full                                                             *)
(* ------------------------------------------------------------------ *)

\* what generate_content may do: return one of two texts; raise a
\* not-found error, a server error, a rate-limit error whose text holds a
\* delay of 12.404 seconds
GeminiAnswers ==
    { GeminiReturns(Plain(Garbage)), GeminiReturns(Plain(JList(<<>>))),
      GeminiRaises(<< "404", "NOT_FOUND" >>),
      GeminiRaises(<< "500", "INTERNAL" >>),
      GeminiRaises(<< "429", "RESOURCE_EXHAUSTED", "retry", "in", "12.",
                      "404", "s" >>) }

InitGemini ==
    /\ user_prompt \in { "A pricing table", "Stats overview" }
    /\ max_retries = 1
    /\ model_preference \in Providers \cup { "mistral" }
    /\ conversation_history = <<>>
    /\ api_keys = { "gemini" }
    /\ env_keys = {}
    /\ importable = Providers
    /\ design_file \in { [ exists |-> FALSE, tokens |-> NoTokens ] }
    /\ provider_texts = GeminiAnswers
    /\ clients = InitClients(api_keys, env_keys, importable)
    /\ tokens = LoadDesignSystem(design_file)
    /\ pc = "call_llm"
    /\ attempt = 1
    /\ current_prompt = BuildPrompt(user_prompt, conversation_history, tokens)
    /\ raw_output = NoRaw
    /\ errors = <<>>
    /\ code_dict = NoneValue
    /\ events = << Event("attempt", 1, <<>>, Absent),
                   Event("generating", 1, <<>>, Absent) >>
    /\ result = NoneValue
    /\ llm_idx = 1
    /\ llm_log = <<>>
    /\ val_log = <<>>
    /\ Alone

NextGemini == LlmSkip \/ GeminiCall \/ LlmMock

SpecGemini == InitGemini /\ [][NextGemini]_vars

(* ------------------------------------------------------------------ *)
(* validate alone: one call, on every raw text of ValidatorInputs      *)
(* ------------------------------------------------------------------ *)

HtmlValues ==
    { JStr(<<>>), JStr(<< "#", "a" >>), JStr(<< "x" >>), JStr(<< "{" >>), JNum(5),
      JList(<<>>) }

CssValues ==
    { JStr(<<>>), JStr(<< "#", "A", "{" >>), JStr(<< "(", ")" >>),
      JStr(<< "}", "(" >>), JNull }

TsValues ==
    { JStr(<<>>), JStr(<< "x" >>), JStr(<< "{" >>), JStr(<< "(", "{", "}" >>),
      JStr(<< "{", ")" >>), JStr(<< "#", "a" >>), JList(<< "x" >>), JNum(0) }

ValuesOf(part) ==
    CASE part = "html" -> HtmlValues
      [] part = "css"  -> CssValues
      [] OTHER         -> TsValues

\* every JSON object with some of the three parts
ObjectDocs ==
    UNION { { JObj(f) : f \in { g \in [ K -> HtmlValues \cup CssValues \cup TsValues ] :
                                 \A k \in K : g[k] \in ValuesOf(k) } } :
            K \in SUBSET Parts }

\* JSON values that are not objects, and text that is not JSON
OtherDocs ==
    { Garbage, JList(<<>>), JList(<< "x" >>), JList(<< "html" >>), JNum(5), JNull,
      JStr(<< "a" >>), JStr(<< "x", "h", "t", "m", "l" >>) }

ValidatorInputs ==
    { [ lead |-> l, fence |-> fc, doc |-> d ] :
        l \in BOOLEAN, fc \in { "none", "json", "bare", "lang" },
        d \in ObjectDocs \cup OtherDocs }

\* the state in which the first validate of a run is called, groq having
\* answered with any of the raw texts
InitValidate ==
    /\ user_prompt \in { "A pricing table" }
    /\ max_retries = 1
    /\ model_preference = "groq"
    /\ conversation_history = <<>>
    /\ api_keys = { "groq" }
    /\ env_keys = {}
    /\ importable = Providers
    /\ design_file \in DesignFiles
    /\ raw_output \in ValidatorInputs
    /\ provider_texts = { raw_output }
    /\ clients = InitClients(api_keys, env_keys, importable)
    /\ tokens = LoadDesignSystem(design_file)
    /\ pc = "validating"
    /\ attempt = 1
    /\ current_prompt = BuildPrompt(user_prompt, conversation_history, tokens)
    /\ errors = <<>>
    /\ code_dict = NoneValue
    /\ events = << Event("attempt", 1, <<>>, Absent),
                   Event("generating", 1, <<>>, Absent),
                   Event("validating", 0, <<>>, Absent) >>
    /\ result = NoneValue
    /\ llm_idx = 1
    /\ llm_log = << [ attempt |-> 1, provider |-> "groq", ok |-> TRUE,
                      text |-> raw_output ] >>
    /\ val_log = <<>>
    /\ Alone

SpecValidate == InitValidate /\ [][PullValidating]_vars

(* ------------------------------------------------------------------ *)
(* Properties of the attempt loop                                      *)
(* ------------------------------------------------------------------ *)

StepsOf(step) == SelectSeq(events, LAMBDA e : e.step = step)

IsTerminal(e) == e.step \in { "success", "max_retries" }

TerminalEvents == SelectSeq(events, IsTerminal)

\* the payload of a raw text once its fences are off, None when that is
\* not JSON
ParsedArtifact(raw) ==
    IF raw.lead \/ raw.fence = "lang" \/ raw.doc = Garbage
    THEN NoneValue
    ELSE raw.doc

\* every validate call of the run returned errors
AllInvalid ==
    \A i \in 1..Len(val_log) :
        ~val_log[i].out.raised /\ val_log[i].out.errors # <<>>

\* C1: with a retry ceiling r >= 1 a run never emits more than r "attempt"
\* events nor more than one terminal event, a terminal event is the last
\* event, and a run that returned has emitted exactly one terminal event.
AttemptsBoundedOneTerminal ==
    max_retries >= 1 =>
        /\ Len(StepsOf("attempt")) <= max_retries
        /\ Len(TerminalEvents) <= 1
        /\ \A i \in 1..Len(events) : IsTerminal(events[i]) => i = Len(events)
        /\ pc = "done" =>
              /\ Len(TerminalEvents) = 1
              /\ IsTerminal(events[Len(events)])

\* a run with ceiling 3 that returned after three attempts
AttemptsBoundedWitness ==
    /\ pc = "done"
    /\ max_retries = 3
    /\ Len(StepsOf("attempt")) = 3
    /\ events[Len(events)].step = "max_retries"

\* C2: a validation without errors on attempt k is followed by a "success"
\* event with the artifact parsed from that attempt's raw text, and nothing
\* follows that event: the "success" event is the last event, it belongs to
\* the last validate call, and the last "attempt" event is numbered k.
SuccessEndsRun ==
    /\ \A i \in 1..Len(events) :
          events[i].step = "success" =>
              /\ i = Len(events)
              /\ val_log # <<>>
              /\ val_log[Len(val_log)].out.errors = <<>>
              /\ events[i].data = ParsedArtifact(val_log[Len(val_log)].raw)
              /\ Len(StepsOf("attempt")) = Len(val_log)
              /\ Len(StepsOf("failed")) = Len(val_log) - 1
              /\ Len(StepsOf("correcting")) = Len(val_log) - 1
              /\ StepsOf("max_retries") = <<>>
    /\ (pc \in { "success", "done" } /\ events # <<>>
            /\ events[Len(events)].step = "success") =>
          /\ attempt = Len(val_log)
          /\ attempt <= max_retries
    /\ (val_log # <<>> /\ ~val_log[Len(val_log)].out.raised
            /\ val_log[Len(val_log)].out.errors = <<>>) =>
          events[Len(events)].step = "success"

\* a run with ceiling 3 that ended with "success" on attempt 2, the first
\* attempt having parsed another artifact
SuccessEndsRunWitness ==
    /\ pc = "done"
    /\ max_retries = 3
    /\ Len(val_log) = 2
    /\ events[Len(events)].step = "success"
    /\ val_log[1].out.code_dict # NoneValue
    /\ val_log[1].out.code_dict # events[Len(events)].data

\* C3: a run with ceiling r >= 1 that returned with every validation in
\* error has emitted exactly r "attempt" events, numbered 1..r in order, and
\* its last event is "max_retries".
AllInvalidExhausts ==
    (pc = "done" /\ max_retries >= 1 /\ AllInvalid) =>
        /\ Len(val_log) = max_retries
        /\ Len(StepsOf("attempt")) = max_retries
        /\ \A n \in 1..max_retries : StepsOf("attempt")[n].value = n
        /\ events[Len(events)].step = "max_retries"
        /\ StepsOf("success") = <<>>

\* a run with ceiling 2 that returned after two failed validations
AllInvalidExhaustsWitness ==
    /\ pc = "done"
    /\ max_retries = 2
    /\ AllInvalid
    /\ Len(val_log) = 2

\* C4: the "max_retries" event carries the artifact of the validation of
\* attempt r, the last one: None when the raw text of attempt r did not
\* parse, whatever earlier attempts parsed.
MaxRetriesCarriesLast ==
    \A i \in 1..Len(events) :
        events[i].step = "max_retries" =>
            /\ Len(val_log) = max_retries
            /\ events[i].data = val_log[max_retries].out.code_dict
            /\ events[i].data = ParsedArtifact(val_log[max_retries].raw)

\* a run with ceiling 2 whose first attempt parsed an artifact and whose
\* second did not parse: "max_retries" carries None
MaxRetriesCarriesLastWitness ==
    /\ max_retries = 2
    /\ events # <<>>
    /\ events[Len(events)].step = "max_retries"
    /\ events[Len(events)].data = NoneValue
    /\ val_log[1].out.code_dict # NoneValue

\* C5: a run started with a retry ceiling of 0 or less and not rejected
\* behaves as with a ceiling of 1: one "attempt" event, one terminal event.
NonPositiveCeilingClamped ==
    (max_retries <= 0 /\ pc = "done") =>
        /\ Len(StepsOf("attempt")) = 1
        /\ Len(TerminalEvents) = 1

\* C6: no exception leaves orchestrate_agentic_loop, whatever text the
\* provider returned.
NoExceptionLeaves == pc # "raised"

(* ------------------------------------------------------------------ *)
(* Properties of call_llm                                              *)
(* ------------------------------------------------------------------ *)

\* the provider calls of the current call_llm
Calls == SelectSeq(llm_log, LAMBDA c : c.attempt = attempt)

Invoked == [ i \in 1..Len(Calls) |-> Calls[i].provider ]

IsPrefix(a, b) == Len(a) <= Len(b) /\ SubSeq(b, 1, Len(a)) = a

\* the preferred provider, then the others as SUPPORTED_MODELS lists them
ExpectedOrder ==
    << model_preference >>
    \o SelectSeq(<< "groq", "openai", "claude", "gemini" >>,
                 LAMBDA p : p # model_preference)

\* the providers for which _init_clients built a client
Configured ==
    { p \in { "groq", "openai", "claude", "gemini" } :
        p \in (api_keys \cup env_keys) /\ p \in importable }

\* C7: call_llm lets no provider failure out; while it runs every call made
\* so far has failed; when it has returned, either its last call is its
\* only successful one and the text returned is that provider's, or every
\* configured provider was called and failed (none, when none is
\* configured) and the text returned is the offline generator's.
CallLlmAlwaysReturnsText ==
    /\ pc # "raised"
    /\ pc = "call_llm" => \A i \in 1..Len(Calls) : ~Calls[i].ok
    /\ pc = "validating" =>
          IF \E i \in 1..Len(Calls) : Calls[i].ok
          THEN /\ \A i \in 1..Len(Calls) : Calls[i].ok <=> i = Len(Calls)
               /\ raw_output = Calls[Len(Calls)].text
               /\ raw_output \in provider_texts
          ELSE /\ Range(Invoked) = Configured
               /\ raw_output = MockForPrompt(current_prompt, tokens)

\* call_llm returned the text of the third provider called, after two failed
CallLlmReturnsTextWitness ==
    /\ pc = "validating"
    /\ Len(Calls) = 3
    /\ ~Calls[1].ok /\ ~Calls[2].ok /\ Calls[3].ok
    /\ raw_output = Calls[3].text

\* C8 as stated: the providers invoked are a prefix of the ordered list
\* restricted to the providers with a credential, each at most once, none
\* after the first success.
InvokedPrefixOfCredentialed ==
    /\ IsPrefix(Invoked,
                SelectSeq(ExpectedOrder, LAMBDA p : p \in (api_keys \cup env_keys)))
    /\ \A i, j \in 1..Len(Calls) : Invoked[i] = Invoked[j] => i = j
    /\ \A i \in 1..Len(Calls) : Calls[i].ok => i = Len(Calls)

\* C8 as amended: the providers invoked are a prefix of the ordered list
\* restricted to the providers with a client (a credential and a library
\* that imports), each at most once, none after the first success, and
\* none without a credential.
InvokedPrefixOfConfigured ==
    /\ IsPrefix(Invoked, SelectSeq(ExpectedOrder, LAMBDA p : p \in Configured))
    /\ \A i, j \in 1..Len(Calls) : Invoked[i] = Invoked[j] => i = j
    /\ \A i \in 1..Len(Calls) : Calls[i].ok => i = Len(Calls)
    /\ Range(Invoked) \subseteq (api_keys \cup env_keys)

\* gemini is preferred and called first, groq has a key but no library and
\* is passed over, openai is called second
InvokedPrefixWitness ==
    /\ model_preference = "gemini"
    /\ "groq" \in api_keys /\ "groq" \notin importable
    /\ Invoked = << "gemini", "openai" >>
    /\ pc = "validating"

(* ------------------------------------------------------------------ *)
(* Properties of validate                                              *)
(* ------------------------------------------------------------------ *)

\* C9: for a raw text whose payload, fences off, is not a key-value
\* document, what validate returns is the one parse error and no artifact.
NonDocumentIsParseError ==
    \A i \in 1..Len(val_log) :
        (ParsedArtifact(val_log[i].raw).t # "obj" /\ ~val_log[i].out.raised) =>
            /\ val_log[i].out.errors =
                  << [ msg |-> "Invalid JSON format or non-JSON output generated.",
                       arg |-> <<>> ] >>
            /\ val_log[i].out.code_dict = NoneValue

\* a part value that is empty: "", [], 0 or null
IsEmpty(v) == v \in { JStr(<<>>), JList(<<>>), JNum(0), JNull }

RequiredPartMessages ==
    { "Missing or empty component part: html",
      "Missing or empty component part: typescript",
      "Missing component part: css" }

\* C10: for a parsed key-value document with html missing or empty,
\* typescript missing or empty, or the css key missing, validate returns
\* exactly one error for each of these defects, in this order, and nothing
\* else; a document with none of them (its css may be "") gets none of the
\* three errors.
RequiredErrorsAccumulate ==
    \A i \in 1..Len(val_log) :
        LET d   == ParsedArtifact(val_log[i].raw)
            out == val_log[i].out
        IN  d.t = "obj" =>
            LET htmlBad == "html" \notin DOMAIN d.f \/ IsEmpty(d.f["html"])
                tsBad   == "typescript" \notin DOMAIN d.f \/ IsEmpty(d.f["typescript"])
                cssBad  == "css" \notin DOMAIN d.f
                expected ==
                    (IF htmlBad
                     THEN << [ msg |-> "Missing or empty component part: html",
                               arg |-> <<>> ] >> ELSE <<>>)
                    \o (IF tsBad
                        THEN << [ msg |-> "Missing or empty component part: typescript",
                                  arg |-> <<>> ] >> ELSE <<>>)
                    \o (IF cssBad
                        THEN << [ msg |-> "Missing component part: css",
                                  arg |-> <<>> ] >> ELSE <<>>)
            IN  IF htmlBad \/ tsBad \/ cssBad
                THEN /\ ~out.raised
                     /\ out.errors = expected
                     /\ out.code_dict = d
                ELSE \A j \in 1..Len(out.errors) :
                        out.errors[j].msg \notin RequiredPartMessages

\* validate was given a document with an empty html, no typescript and an
\* empty css, and returned the two errors
RequiredErrorsAccumulateWitness ==
    /\ Len(val_log) = 1
    /\ ParsedArtifact(val_log[1].raw) =
          JObj(("html" :> JStr(<<>>)) @@ ("css" :> JStr(<<>>)))
    /\ Len(val_log[1].out.errors) = 2

\* an artifact that passes the three checks, stated from their description:
\* three string parts, html and typescript not empty, braces and
\* parentheses balanced in typescript and css, and the lower-cased primary
\* color, when one is configured, inside the lower-cased html + css
Balanced(text) ==
    /\ Cardinality({ i \in 1..Len(text) : text[i] = "{" })
         = Cardinality({ i \in 1..Len(text) : text[i] = "}" })
    /\ Cardinality({ i \in 1..Len(text) : text[i] = "(" })
         = Cardinality({ i \in 1..Len(text) : text[i] = ")" })

UsesPrimary(a, tk) ==
    \/ "primary-color" \notin DOMAIN tk
    \/ tk["primary-color"] = <<>>
    \/ LET color == [ i \in 1..Len(tk["primary-color"]) |->
                        LowerChar(tk["primary-color"][i]) ]
           code  == [ i \in 1..Len(a.f["html"].s \o a.f["css"].s) |->
                        LowerChar((a.f["html"].s \o a.f["css"].s)[i]) ]
       IN  \E k \in 0..(Len(code) - Len(color)) :
              \A i \in 1..Len(color) : code[k + i] = color[i]

SatisfiesChecks(a, tk) ==
    /\ a.t = "obj"
    /\ DOMAIN a.f = { "html", "css", "typescript" }
    /\ \A k \in DOMAIN a.f : a.f[k].t = "str"
    /\ a.f["html"].s # <<>>
    /\ a.f["typescript"].s # <<>>
    /\ Balanced(a.f["typescript"].s)
    /\ Balanced(a.f["css"].s)
    /\ UsesPrimary(a, tk)

\* the artifact without the part, and with the part set to ""
WithoutPart(a, part) == JObj([ k \in DOMAIN a.f \ { part } |-> a.f[k] ])

WithEmptyPart(a, part) == JObj([ a.f EXCEPT ![part] = JStr(<<>>) ])

\* the one error that names the part
ErrorNaming(part) ==
    CASE part = "html" ->
             [ msg |-> "Missing or empty component part: html", arg |-> <<>> ]
      [] part = "typescript" ->
             [ msg |-> "Missing or empty component part: typescript", arg |-> <<>> ]
      [] OTHER ->
             [ msg |-> "Missing component part: css", arg |-> <<>> ]

\* the artifacts that pass the checks, among the documents validate is given
ValidArtifacts(tk) == { a \in ObjectDocs : SatisfiesChecks(a, tk) }

\* C11 as stated: an artifact that satisfies the checks is Valid, and such
\* an artifact with any one of html, css, typescript missing or empty is
\* Invalid with the one error that names that part.
RoundTripEveryPart ==
    \A i \in 1..Len(val_log) :
        LET m   == ParsedArtifact(val_log[i].raw)
            out == val_log[i].out
        IN  /\ SatisfiesChecks(m, tokens) => out = Outcome(FALSE, <<>>, m)
            /\ \A a \in ValidArtifacts(tokens) : \A part \in Parts :
                  m \in { WithoutPart(a, part), WithEmptyPart(a, part) } /\ m # a =>
                      out = Outcome(FALSE, << ErrorNaming(part) >>, m)

\* C11 as amended: an artifact that satisfies the checks is Valid; such an
\* artifact with html or typescript missing or empty, or with the css key
\* missing, is Invalid with the one error that names that part; with its
\* css set to "" no error names a part.
RoundTripRequiredParts ==
    \A i \in 1..Len(val_log) :
        LET m   == ParsedArtifact(val_log[i].raw)
            out == val_log[i].out
        IN  /\ SatisfiesChecks(m, tokens) => out = Outcome(FALSE, <<>>, m)
            /\ \A a \in ValidArtifacts(tokens) :
                  /\ \A part \in Parts :
                        m = WithoutPart(a, part) =>
                            out = Outcome(FALSE, << ErrorNaming(part) >>, m)
                  /\ \A part \in { "html", "typescript" } :
                        m = WithEmptyPart(a, part) =>
                            out = Outcome(FALSE, << ErrorNaming(part) >>, m)
                  /\ m = WithEmptyPart(a, "css") =>
                        /\ ~out.raised
                        /\ \A j \in 1..Len(out.errors) :
                              out.errors[j].msg \notin RequiredPartMessages

\* with the primary color "#A" configured, validate was given an artifact
\* that passes the checks but for its html, which is "", and returned the
\* one error that names html
RoundTripWitness ==
    /\ Len(val_log) = 1
    /\ "primary-color" \in DOMAIN tokens
    /\ tokens["primary-color"] = << "#", "A" >>
    /\ \E a \in ValidArtifacts(tokens) :
          ParsedArtifact(val_log[1].raw) = WithEmptyPart(a, "html")
    /\ val_log[1].out.errors = << ErrorNaming("html") >>

\* the required-part check passes and validate returns
PassedRequired(d, out) ==
    /\ d.t = "obj"
    /\ DOMAIN d.f = { "html", "css", "typescript" }
    /\ ~IsEmpty(d.f["html"])
    /\ ~IsEmpty(d.f["typescript"])
    /\ ~out.raised

DesignErrorsOf(out) ==
    SelectSeq(out.errors,
              LAMBDA e : e.msg = "Design Token Violation: Primary color was not used.")

\* C12 as stated: an artifact that passed the required-part check gets one
\* design-token error, naming the configured primary color, exactly when a
\* non-empty primary color is configured whose lower-cased text is not in
\* the lower-cased html + css; otherwise it gets none.
DesignErrorNamesConfigured ==
    \A i \in 1..Len(val_log) :
        LET d   == ParsedArtifact(val_log[i].raw)
            out == val_log[i].out
        IN  PassedRequired(d, out) =>
                IF UsesPrimary(d, tokens)
                THEN DesignErrorsOf(out) = <<>>
                ELSE DesignErrorsOf(out) =
                        << [ msg |-> "Design Token Violation: Primary color was not used.",
                             arg |-> tokens["primary-color"] ] >>

\* C12 as amended: the one design-token error names the lower-cased text
\* of the configured primary color.
DesignErrorNamesLowered ==
    \A i \in 1..Len(val_log) :
        LET d   == ParsedArtifact(val_log[i].raw)
            out == val_log[i].out
        IN  PassedRequired(d, out) =>
                IF UsesPrimary(d, tokens)
                THEN DesignErrorsOf(out) = <<>>
                ELSE DesignErrorsOf(out) =
                        << [ msg |-> "Design Token Violation: Primary color was not used.",
                             arg |-> [ k \in 1..Len(tokens["primary-color"]) |->
                                         LowerChar(tokens["primary-color"][k]) ] ] >>

\* with the primary color "#A" configured, validate was given an artifact
\* that holds "#a" in its typescript only, and returned the design-token
\* error
DesignErrorWitness ==
    /\ Len(val_log) = 1
    /\ "primary-color" \in DOMAIN tokens
    /\ tokens["primary-color"] = << "#", "A" >>
    /\ ParsedArtifact(val_log[1].raw) =
          Doc(JStr(<< "x" >>), JStr(<<>>), JStr(<< "#", "a" >>))
    /\ Len(DesignErrorsOf(val_log[1].out)) = 1

\* how many of the errors carry the message
TimesReported(out, msg) ==
    Cardinality({ j \in 1..Len(out.errors) : out.errors[j].msg = msg })

Occurrences(text, ch) == Cardinality({ i \in 1..Len(text) : text[i] = ch })

\* in `out`, each of the four imbalances of typescript and css is reported
\* once when the counts differ and not at all when they agree
SyntaxReportedExactly(d, out) ==
    /\ TimesReported(out, "Unbalanced curly braces in typescript")
         = IF Occurrences(d.f["typescript"].s, "{") # Occurrences(d.f["typescript"].s, "}")
           THEN 1 ELSE 0
    /\ TimesReported(out, "Unbalanced parentheses in typescript")
         = IF Occurrences(d.f["typescript"].s, "(") # Occurrences(d.f["typescript"].s, ")")
           THEN 1 ELSE 0
    /\ TimesReported(out, "Unbalanced curly braces in css")
         = IF Occurrences(d.f["css"].s, "{") # Occurrences(d.f["css"].s, "}")
           THEN 1 ELSE 0
    /\ TimesReported(out, "Unbalanced parentheses in css")
         = IF Occurrences(d.f["css"].s, "(") # Occurrences(d.f["css"].s, ")")
           THEN 1 ELSE 0

\* C13 as stated: for every document with a typescript text and a css text,
\* each imbalance of braces or parentheses in typescript or css is reported
\* by exactly one message.
SyntaxBalanceAlways ==
    \A i \in 1..Len(val_log) :
        LET d   == ParsedArtifact(val_log[i].raw)
            out == val_log[i].out
        IN  (d.t = "obj" /\ { "typescript", "css" } \subseteq DOMAIN d.f
                /\ d.f["typescript"].t = "str" /\ d.f["css"].t = "str"
                /\ ~out.raised) =>
                SyntaxReportedExactly(d, out)

\* C13 as amended: the same, for a document that passed the required-part
\* check; every error of such a document is one of these four messages or
\* the design-token error, so none is about html.
SyntaxBalanceAfterRequired ==
    \A i \in 1..Len(val_log) :
        LET d   == ParsedArtifact(val_log[i].raw)
            out == val_log[i].out
        IN  PassedRequired(d, out) =>
                /\ SyntaxReportedExactly(d, out)
                /\ \A j \in 1..Len(out.errors) :
                      out.errors[j].msg \in
                          { "Unbalanced curly braces in typescript",
                            "Unbalanced parentheses in typescript",
                            "Unbalanced curly braces in css",
                            "Unbalanced parentheses in css",
                            "Design Token Violation: Primary color was not used." }

\* validate was given an artifact with "{" as html, "#A{" as css and "({}"
\* as typescript: one brace message for css, one parenthesis message for
\* typescript, none for html
SyntaxBalanceWitness ==
    /\ Len(val_log) = 1
    /\ ParsedArtifact(val_log[1].raw) =
          Doc(JStr(<< "{" >>), JStr(<< "#", "A", "{" >>), JStr(<< "(", "{", "}" >>))
    /\ TimesReported(val_log[1].out, "Unbalanced curly braces in css") = 1
    /\ TimesReported(val_log[1].out, "Unbalanced parentheses in typescript") = 1
    /\ TimesReported(val_log[1].out, "Unbalanced curly braces in typescript") = 0

(* ------------------------------------------------------------------ *)
(* Properties of the run, continued                                    *)
(* ------------------------------------------------------------------ *)

\* C14: two validate calls of a run on the same raw text return the same
\* errors in the same order and the same artifact, and the tokens of the
\* design system stay those that were loaded.
ValidateIdempotent ==
    /\ \A i, j \in 1..Len(val_log) :
          val_log[i].raw = val_log[j].raw => val_log[i].out = val_log[j].out
    /\ pc # "start" =>
          tokens = IF design_file.exists THEN design_file.tokens ELSE NoTokens

\* the second and the third validate call of a run were given the same raw
\* text, which has errors, after a first call on another text
ValidateIdempotentWitness ==
    /\ Len(val_log) = 3
    /\ val_log[1].raw # val_log[2].raw
    /\ val_log[2].raw = val_log[3].raw
    /\ Len(val_log[3].out.errors) = 2
    /\ "primary-color" \in DOMAIN tokens

\* C15: the artifact of a "success" event is a key-value document with the
\* three keys html, css and typescript, its html and typescript not empty;
\* no "success" event follows the validation of a document without one of
\* the keys.
SuccessCarriesThreeParts ==
    /\ \A i \in 1..Len(events) :
          events[i].step = "success" =>
              /\ events[i].data.t = "obj"
              /\ DOMAIN events[i].data.f = { "html", "css", "typescript" }
              /\ events[i].data.f["html"] \notin { JStr(<<>>), JList(<<>>), JNum(0), JNull }
              /\ events[i].data.f["typescript"]
                    \notin { JStr(<<>>), JList(<<>>), JNum(0), JNull }
    /\ (val_log # <<>> /\
          LET d == ParsedArtifact(val_log[Len(val_log)].raw) IN
          d.t # "obj" \/ DOMAIN d.f # { "html", "css", "typescript" }) =>
          events[Len(events)].step # "success"

\* a "success" event whose artifact has "" as css, after a raw text inside
\* a ```json fence
SuccessCarriesThreePartsWitness ==
    /\ events # <<>>
    /\ events[Len(events)].step = "success"
    /\ events[Len(events)].data.f["css"] = JStr(<<>>)
    /\ val_log[Len(val_log)].raw.fence = "json"
    /\ "primary-color" \in DOMAIN tokens /\ tokens["primary-color"] # <<>>

CategoryKeywords ==
    { "register", "signup", "sign up", "create account",
      "navbar", "navigation", "nav bar", "header", "topbar",
      "dashboard", "stats", "analytics", "overview", "metric",
      "profile", "user card", "avatar", "account",
      "button", "btn", "cta" }

\* C16: when no provider answered on the first attempt and the request
\* holds none of the category keywords, the first attempt's text is the
\* login artifact.
OfflineDefaultIsLogin ==
    (/\ val_log # <<>>
     /\ \A i \in 1..Len(llm_log) : llm_log[i].attempt = 1 => ~llm_log[i].ok
     /\ OccursIn(user_prompt) \cap CategoryKeywords = {}) =>
        /\ val_log[1].raw.doc.t = "obj"
        /\ "LoginComponent" \in Range(val_log[1].raw.doc.f["typescript"].s)

\* C17: a provider call that does not answer does not stall the run:
\* call_llm can still move on.
ProviderCallNeverStalls == pc = "blocked" => ENABLED CallLlm

\* the last entries of h, at most three of them, oldest first
RecentThree(h) ==
    LET n == Len(h)
        k == IF n < 3 THEN n ELSE 3
    IN  [ i \in 1..k |-> h[n - k + i] ]

\* C18: the first pull builds the prompt from the most recent three
\* history entries in their order and the request, from the request alone
\* when the history is empty, and leaves the history as it was.
PromptFromRecentThree ==
    [][ pc = "start" =>
          /\ current_prompt'.kind = "initial"
          /\ current_prompt'.request = user_prompt
          /\ current_prompt'.context = RecentThree(conversation_history)
          /\ conversation_history = <<>> => current_prompt'.context = <<>>
          /\ conversation_history' = conversation_history ]_vars

PromptFromRecentThreeWitness ==
    /\ pc = "attempt"
    /\ Len(conversation_history) = 4
    /\ conversation_history[1] # conversation_history[2]
    /\ current_prompt.context = SubSeq(conversation_history, 2, 4)
    /\ current_prompt.request = user_prompt

\* the number of the attempt the i-th event belongs to
AttemptAt(i) ==
    Len(SelectSeq(SubSeq(events, 1, i), LAMBDA e : e.step = "attempt"))

\* what may follow event e of attempt n
MayFollow(e, n, f) ==
    CASE e.step = "attempt"    -> f.step = "generating"
      [] e.step = "generating" -> f.step = "validating"
      [] e.step = "validating" -> f.step \in { "success", "failed" }
      [] e.step = "failed"     -> IF n < max_retries
                                  THEN f.step = "correcting"
                                  ELSE f.step = "max_retries"
      [] e.step = "correcting" -> /\ n < max_retries
                                  /\ f.step = "attempt"
                                  /\ f.value = n + 1
      [] OTHER                 -> FALSE

\* C19: the events of a run follow the attempt state machine: attempt n,
\* generating, validating, then success or failed; failed is followed by
\* correcting and attempt n+1 when n < r and by max_retries when n = r;
\* every failed event carries the non-empty errors of its own attempt's
\* validation.
EventsFollowStateMachine ==
    \A i \in 1..Len(events) :
        LET e == events[i]
            n == AttemptAt(i)
        IN  /\ i = 1 => e.step = "attempt"
            /\ e.step = "attempt" => e.value = n /\ n <= max_retries
            /\ i < Len(events) => MayFollow(e, n, events[i + 1])
            /\ e.step = "failed" =>
                  /\ e.errors # <<>>
                  /\ n <= Len(val_log)
                  /\ e.errors = val_log[n].out.errors

EventsFollowStateMachineWitness ==
    /\ pc = "done"
    /\ Len(StepsOf("correcting")) = 2
    /\ events[Len(events)].step = "max_retries"
    /\ StepsOf("failed")[1].errors # StepsOf("failed")[2].errors
    /\ StepsOf("failed")[2].errors # StepsOf("failed")[3].errors

\* the primary color of the design system as configured, "#6366f1" without
\* one
ConfiguredPrimary ==
    IF "primary-color" \in DOMAIN tokens
    THEN tokens["primary-color"]
    ELSE << "#", "6" >>

\* C20: the prompt of attempt n+1 lists the errors of attempt n's
\* validation, each once and in order, none of an earlier attempt, and
\* holds the primary color as configured or the default.
CorrectivePromptListsLastErrors ==
    (attempt >= 2 /\ pc \in { "attempt", "generating", "call_llm", "blocked" }) =>
        /\ current_prompt.kind = "corrective"
        /\ attempt - 1 <= Len(val_log)
        /\ current_prompt.errors = val_log[attempt - 1].out.errors
        /\ current_prompt.color = ConfiguredPrimary

CorrectivePromptListsLastErrorsWitness ==
    /\ pc = "call_llm"
    /\ attempt = 3
    /\ Len(val_log[2].out.errors) >= 2
    /\ val_log[1].out.errors # val_log[2].out.errors
    /\ current_prompt.errors = val_log[2].out.errors
    /\ "primary-color" \in DOMAIN tokens
    /\ current_prompt.color = tokens["primary-color"]

IsRequiredError(e) ==
    e.msg \in { "Missing or empty component part: html",
                "Missing or empty component part: typescript",
                "Missing component part: css" }

\* the place of an error among the syntax and design errors, 0 for any
\* other error
LaterCheckRank(e) ==
    CASE e.msg = "Unbalanced curly braces in typescript" -> 1
      [] e.msg = "Unbalanced parentheses in typescript"  -> 2
      [] e.msg = "Unbalanced curly braces in css"        -> 3
      [] e.msg = "Unbalanced parentheses in css"         -> 4
      [] e.msg = "Design Token Violation: Primary color was not used." -> 5
      [] OTHER -> 0

\* C21: no outcome of validate holds a required-part error together with
\* an unbalanced or design-token error, and its syntax and design errors
\* come in the order typescript braces, typescript parentheses, css
\* braces, css parentheses, design token.
LaterChecksOnlyAfterRequired ==
    \A i \in 1..Len(val_log) :
        LET errs == val_log[i].out.errors IN
        /\ ~(/\ \E j \in 1..Len(errs) : IsRequiredError(errs[j])
             /\ \E j \in 1..Len(errs) : LaterCheckRank(errs[j]) > 0)
        /\ \A j, k \in 1..Len(errs) :
              (j < k /\ LaterCheckRank(errs[j]) > 0 /\ LaterCheckRank(errs[k]) > 0)
                  => LaterCheckRank(errs[j]) < LaterCheckRank(errs[k])

\* a document without html whose typescript has an unbalanced brace gets
\* the required-part error alone
LaterChecksOnlyAfterRequiredWitness ==
    /\ Len(val_log) = 1
    /\ val_log[1].raw.fence = "none" /\ ~val_log[1].raw.lead
    /\ val_log[1].raw.doc.t = "obj"
    /\ DOMAIN val_log[1].raw.doc.f = { "css", "typescript" }
    /\ val_log[1].raw.doc.f["typescript"] = JStr(<< "{", ")" >>)
    /\ val_log[1].out.errors = << Err("Missing or empty component part: html", <<>>) >>

\* an outcome with all five syntax and design errors
LaterChecksAllFive ==
    /\ Len(val_log) = 1
    /\ Len(val_log[1].out.errors) = 5

\* the call_llm calls made so far: those that returned, each followed at
\* once by a "validating" event, and the one that is running
CallLlmCalls ==
    Len(StepsOf("validating")) + (IF pc \in { "call_llm", "blocked" } THEN 1 ELSE 0)

\* the validate calls made so far
ValidateCalls == Len(val_log)

\* C22: call_llm and validate are called only inside a pull, once for each
\* attempt, call_llm after the attempt's "generating" event and validate
\* after call_llm returned and before the attempt's "success" or "failed",
\* so there are never more call_llm calls than "generating" events.
WorkOnlyWhenPulled ==
    LET generating == Len(StepsOf("generating"))
        verdicts   == Len(StepsOf("success")) + Len(StepsOf("failed"))
    IN  /\ CallLlmCalls <= generating
        /\ generating <= CallLlmCalls + 1
        /\ generating = CallLlmCalls + 1 => pc = "generating"
        /\ ValidateCalls <= Len(StepsOf("validating"))
        /\ Len(StepsOf("validating")) <= ValidateCalls + 1
        /\ verdicts <= ValidateCalls
        /\ ValidateCalls <= verdicts + 1
        /\ ValidateCalls = verdicts + 1 => pc = "raised"
        /\ \A i \in 1..Len(llm_log) :
              /\ llm_log[i].attempt <= generating
              /\ llm_log[i].attempt > Len(StepsOf("validating"))
                    => pc \in { "call_llm", "blocked" }
        /\ pc \in { "success", "failed", "correcting", "max_retries", "done" } =>
              /\ CallLlmCalls = attempt
              /\ ValidateCalls = attempt

\* the second call_llm has returned after a provider failure and validate
\* has not been called for it yet
WorkOnlyWhenPulledWitness ==
    /\ pc = "validating"
    /\ attempt = 2
    /\ CallLlmCalls = 2
    /\ ValidateCalls = 1
    /\ Len(llm_log) = 2
    /\ llm_log[1].ok /\ ~llm_log[2].ok /\ llm_log[2].attempt = 2

\* the two generator objects of the process
Runs == { Frame, suspended }

\* the texts call_llm has returned to run f, one for each attempt so far
ReturnedTexts(f) ==
    [ i \in 1..Len(f.val_log) |-> f.val_log[i].raw ]
    \o (IF f.pc = "validating" THEN << f.raw_output >> ELSE <<>>)

\* the events of a call with retry ceiling r that runs alone, from attempt
\* n on, when call_llm returns texts[n] to attempt n and the consumer has
\* pulled as far as the texts reach
RECURSIVE SoloEventsFrom(_, _, _, _)
SoloEventsFrom(n, r, texts, tk) ==
    IF n > r THEN <<>>
    ELSE << Event("attempt", n, <<>>, Absent), Event("generating", n, <<>>, Absent) >>
         \o (IF n > Len(texts) THEN <<>>
             ELSE LET out == Validate(texts[n], tk) IN
                  << Event("validating", 0, <<>>, Absent) >>
                  \o (IF out.raised THEN <<>>
                      ELSE IF out.errors = <<>>
                      THEN << Event("success", 0, <<>>, out.code_dict) >>
                      ELSE << Event("failed", Len(out.errors), out.errors, Absent) >>
                           \o (IF n < r
                               THEN << Event("correcting", 0, <<>>, Absent) >>
                                    \o SoloEventsFrom(n + 1, r, texts, tk)
                               ELSE << Event("max_retries", 0, <<>>,
                                             out.code_dict) >>)))

SoloEvents(f) ==
    SoloEventsFrom(1, f.max_retries, ReturnedTexts(f), LoadDesignSystem(design_file))

AttemptEventsOf(f) == Len(SelectSeq(f.events, LAMBDA e : e.step = "attempt"))

\* C23: each of two runs pulled in any interleaving keeps its own attempt
\* counter, prompt and last validation outcome, and its events are those
\* of the same call run alone with the same texts returned by call_llm.
RunsAreIndependent ==
    \A f \in Runs :
        /\ IsPrefix(f.events, SoloEvents(f))
        /\ f.pc = "done" => f.events = SoloEvents(f)
        /\ f.pc # "start" => f.attempt = AttemptEventsOf(f)
        /\ f.attempt = 1 =>
              f.current_prompt =
                  BuildPrompt(f.user_prompt, f.conversation_history,
                              LoadDesignSystem(design_file))
        /\ f.attempt >= 2 =>
              /\ f.current_prompt.kind = "corrective"
              /\ f.current_prompt.errors = f.val_log[f.attempt - 1].out.errors
        /\ (f.val_log # <<>> /\ ~f.val_log[Len(f.val_log)].out.raised) =>
              /\ f.errors = f.val_log[Len(f.val_log)].out.errors
              /\ f.code_dict = f.val_log[Len(f.val_log)].out.code_dict

\* both runs are in their second attempt, after different errors, and the
\* second was pulled last
RunsAreIndependentWitness ==
    /\ active = 2
    /\ suspended # NoFrame
    /\ attempt = 2 /\ suspended.attempt = 2
    /\ pc = "generating" /\ suspended.pc = "validating"
    /\ errors # suspended.errors
    /\ current_prompt # suspended.current_prompt

\* C24: with a retry ceiling r >= 1 a run whose provider calls all return
\* or fail goes on, pull after pull, until it has emitted its terminal
\* event and returned: it stops nowhere else.
RunEndsWithTerminalEvent ==
    (max_retries >= 1 /\ pc # "blocked") =>
        \/ ENABLED Next
        \/ pc = "done" /\ Len(TerminalEvents) = 1

\* the decision table of the offline generator: the keyword groups in
\* their order, each with the component it selects
DecisionTable ==
    << [ keys |-> { "register", "signup", "sign up", "create account" },
         class |-> "RegisterComponent" ],
       [ keys |-> { "navbar", "navigation", "nav bar", "header", "topbar" },
         class |-> "NavbarComponent" ],
       [ keys |-> { "dashboard", "stats", "analytics", "overview", "metric" },
         class |-> "DashboardComponent" ],
       [ keys |-> { "profile", "user card", "avatar", "account" },
         class |-> "ProfileComponent" ],
       [ keys |-> { "button", "btn", "cta" },
         class |-> "ButtonShowcaseComponent" ] >>

\* the component of the earliest group with a keyword among `found`, the
\* login component when there is none
FirstMatch(found) ==
    LET hits == { i \in 1..Len(DecisionTable) : DecisionTable[i].keys \cap found # {} }
    IN  IF hits = {} THEN "LoginComponent"
        ELSE DecisionTable[CHOOSE i \in hits : \A j \in hits : i <= j].class

ComponentOf(raw) ==
    { c \in Range(raw.doc.f["typescript"].s) :
        c \in { DecisionTable[i].class : i \in 1..Len(DecisionTable) }
                \cup { "LoginComponent" } }

\* C25: the offline generator answers with the component of the earliest
\* group, in the order register, navbar, dashboard, profile, button, that
\* has a keyword in the inspected text, with the login component when no
\* group has one; "create account" selects register, not profile; equal
\* texts give equal answers.
OfflineFirstMatchWins ==
    /\ pc = "validating" =>
          /\ raw_output.doc.t = "obj"
          /\ ComponentOf(raw_output) = { FirstMatch(KeywordsOfPrompt(current_prompt)) }
          /\ "create account" \in KeywordsOfPrompt(current_prompt)
                => ComponentOf(raw_output) = { "RegisterComponent" }
    /\ \A i, j \in 1..Len(val_log) :
          (/\ i < Len(val_log) /\ j < Len(val_log)
           /\ val_log[i].out.errors = val_log[j].out.errors)
              => val_log[i + 1].raw = val_log[j + 1].raw

\* the request holds keywords of the register, profile and button groups
OfflineFirstMatchWinsWitness ==
    /\ pc = "validating"
    /\ attempt = 1
    /\ user_prompt = "Create Account form"
    /\ conversation_history = <<>>
    /\ { "create account", "account", "button" } \subseteq KeywordsOfPrompt(current_prompt)
    /\ ComponentOf(raw_output) = { "RegisterComponent" }

\* the answer to a corrective prompt, which holds no keyword
OfflineDefaultReached ==
    /\ pc = "validating"
    /\ attempt = 3
    /\ ComponentOf(raw_output) = { "LoginComponent" }
    /\ val_log[2].raw = raw_output

TokenText(name, default) ==
    IF name \in DOMAIN tokens THEN tokens[name] ELSE default

\* C27: when the primary color and the font of the design system have
\* balanced braces and parentheses, validate finds no error in any answer
\* of the offline generator, and a run without a usable provider ends
\* with "success" on its first attempt.
OfflineOutputPasses ==
    (/\ Balanced(TokenText("primary-color", << "#", "6" >>))
     /\ Balanced(TokenText("font-family", << "Inter" >>))) =>
        /\ \A i \in 1..Len(val_log) :
              ~val_log[i].out.raised /\ val_log[i].out.errors = <<>>
        /\ pc = "done" =>
              /\ Len(events) = 4
              /\ events[4].step = "success"

\* an error of generate_content that says the model was not found
IsNotFound(answer) == ~answer.ok /\ answer.msg[1] = "404"

\* C26: a gemini call tries the model ids in their fixed order; only a
\* not-found error moves it to the next id; it returns the first text it
\* gets; any other error fails it at once; it fails otherwise only after
\* every id was not found.
GeminiTriesIdsInOrder ==
    \A i \in 1..Len(llm_log) :
        LET c == llm_log[i]
            n == Len(c.models)
        IN  /\ n >= 1
            /\ c.models = SubSeq(<< "gemini-2.0-flash", "gemini-2.0-flash",
                                    "gemini-1.5-flash", "gemini-1.5-flash-latest" >>,
                                 1, n)
            /\ \A j \in 1..(n - 1) : IsNotFound(c.answers[j])
            /\ c.ok => c.answers[n].ok /\ c.text = c.answers[n].text
            /\ ~c.ok =>
                  /\ ~c.answers[n].ok
                  /\ IsNotFound(c.answers[n]) => n = 4

\* the errors the attempt before f's current one ended with
PreviousErrors(f) == f.val_log[f.attempt - 1].out.errors

\* C28: from attempt 2 on the prompt of a run holds the previous attempt's
\* errors and the primary color and nothing of the request, the history
\* or the token mapping, so two runs with different requests whose
\* previous attempts failed with the same errors have the same prompt.
CorrectivePromptForgetsRequest ==
    /\ \A f \in Runs :
          f.attempt >= 2 =>
              f.current_prompt =
                  [ kind |-> "corrective", request |-> "", context |-> <<>>,
                    tokens |-> [ k \in {} |-> <<>> ],
                    errors |-> PreviousErrors(f),
                    color |-> IF "primary-color" \in DOMAIN f.tokens
                              THEN f.tokens["primary-color"]
                              ELSE << "#", "6" >> ]
    /\ \A f, g \in Runs :
          (/\ f.attempt >= 2 /\ g.attempt >= 2
           /\ PreviousErrors(f) = PreviousErrors(g))
              => f.current_prompt = g.current_prompt

\* two runs with different requests and histories are in their second
\* attempt after the same errors
CorrectivePromptForgetsRequestWitness ==
    /\ suspended # NoFrame
    /\ attempt = 2 /\ suspended.attempt = 2
    /\ pc = "generating" /\ suspended.pc = "generating"
    /\ user_prompt # suspended.user_prompt
    /\ conversation_history # suspended.conversation_history
    /\ errors # <<>>
    /\ val_log[1].out.errors = suspended.val_log[1].out.errors
    /\ current_prompt = suspended.current_prompt

====
